---- MODULE Spec2Model ----
(***************************************************************************)
(* MinnalAmmu universe store.                                              *)
(*                                                                         *)
(* Two Streamlit applications share one backing file,                      *)
(* universe/universe_data.json:                                            *)
(*   - UniverseBuilder  (MinnalAmmu_Universe/universe_builder.py):         *)
(*       load_universe, save_universe, generate_id, add_character,         *)
(*       add_location;                                                     *)
(*   - StoryGenerator   (Generate_Stories/story_generator_app.py):         *)
(*       load_universe, generate_id, save_story_to_universe.               *)
(* Each application object holds its own in-memory graph                    *)
(* (self.universe_data) and reads or rewrites the whole file.               *)
(*                                                                         *)
(* Python strings are modelled as sequences of one-character strings, so   *)
(* that startswith, slicing, lower(), strip(), int() and the format        *)
(* specifications {:02d} / {:05d} are computed as the code computes them.   *)
(* A dict is modelled as the sequence of its (name, data) entries in        *)
(* insertion order, which is the order Python iterates it in.               *)
(***************************************************************************)
EXTENDS Integers, Sequences, FiniteSets, TLC

VARIABLES
    file,           \* the backing file universe/universe_data.json
    universe_data,  \* app -> that object's in-memory graph (self.universe_data)
    now,            \* the clock read by datetime.now(): a day number
    calls,          \* number of add_character, add_location and
                    \* save_story_to_universe calls made so far
    last,           \* the most recent method call: its arguments and its result
                    \* (the selected names are kept for a story that was added),
                    \* and the records its write removed from the file
    arg,            \* input of the pure-function specifications
    res             \* result of the pure-function specifications

vars == <<file, universe_data, now, calls, last, arg, res>>

----------------------------------------------------------------------------
(* Bounds of the model *)

MaxCalls == 2       \* mutating method calls in one behaviour
MaxNow == 1         \* days that pass after day 0
MaxRefs == 1        \* characters (and locations) selected for one story

----------------------------------------------------------------------------
(* Python string primitives *)

Digits == <<"0", "1", "2", "3", "4", "5", "6", "7", "8", "9">>

IsDigit(c) == \E d \in 1..10 : Digits[d] = c

DigitVal(c) == (CHOOSE d \in 1..10 : Digits[d] = c) - 1

\* str(n) for n >= 0
RECURSIVE Str(_)
Str(n) == IF n < 10 THEN <<Digits[n + 1]>>
          ELSE Str(n \div 10) \o <<Digits[(n % 10) + 1]>>

\* f"{n:0wd}": the decimal digits of n, zero-padded on the left to at least w
RECURSIVE ZeroPad(_, _)
ZeroPad(s, w) == IF Len(s) >= w THEN s ELSE ZeroPad(<<"0">> \o s, w)

\* (a negative number takes one place of the width for its sign)
Fmt(n, w) == IF n < 0 THEN <<"-">> \o ZeroPad(Str(0 - n), w - 1)
             ELSE ZeroPad(Str(n), w)

\* s.startswith(p)
StartsWith(s, p) == Len(s) >= Len(p) /\ SubSeq(s, 1, Len(p)) = p

\* s[-k:]
Suffix(s, k) == IF Len(s) <= k THEN s ELSE SubSeq(s, Len(s) - k + 1, Len(s))

\* s.lower(), over the letters the model's names and texts use
UpperLetters == <<"A", "M", "P", "Z", "B", "I", "N", "R", "S">>
LowerLetters == <<"a", "m", "p", "z", "b", "i", "n", "r", "s">>

LowerChar(c) == IF \E k \in 1..Len(UpperLetters) : UpperLetters[k] = c
                THEN LowerLetters[CHOOSE k \in 1..Len(UpperLetters) : UpperLetters[k] = c]
                ELSE c

Lower(s) == [k \in 1..Len(s) |-> LowerChar(s[k])]

\* s.strip()
IsSpace(c) == c = " " \/ c = "\n"

RECURSIVE LStrip(_)
LStrip(s) == IF Len(s) > 0 /\ IsSpace(s[1]) THEN LStrip(Suffix(s, Len(s) - 1)) ELSE s

RECURSIVE RStrip(_)
RStrip(s) == IF Len(s) > 0 /\ IsSpace(s[Len(s)]) THEN RStrip(SubSeq(s, 1, Len(s) - 1)) ELSE s

Strip(s) == RStrip(LStrip(s))

\* The value of a string of decimal digits
RECURSIVE DigitsVal(_)
DigitsVal(s) == IF Len(s) = 0 THEN 0
                ELSE 10 * DigitsVal(SubSeq(s, 1, Len(s) - 1)) + DigitVal(s[Len(s)])

\* int(s) reads, between optional whitespace, an optional sign and then decimal
\* digits, which single underscores may separate.  The part after the sign:
IntDigits(s) ==
    LET t == Strip(s)
    IN  IF Len(t) > 0 /\ t[1] \in {"+", "-"} THEN Tail(t) ELSE t

\* int(s) succeeds; otherwise it raises ValueError
IntOk(s) ==
    LET u == IntDigits(s)
    IN  /\ Len(u) > 0
        /\ \A k \in 1..Len(u) :
              \/ IsDigit(u[k])
              \/ /\ u[k] = "_"
                 /\ 1 < k /\ k < Len(u)
                 /\ IsDigit(u[k - 1]) /\ IsDigit(u[k + 1])

IntVal(s) ==
    LET t == Strip(s)
        IsDigitChar(c) == c # "_"
        v == DigitsVal(SelectSeq(IntDigits(s), IsDigitChar))
    IN  IF Len(t) > 0 /\ t[1] = "-" THEN 0 - v ELSE v

Max(S) == CHOOSE m \in S : \A x \in S : x <= m

----------------------------------------------------------------------------
(* Dicts: insertion-ordered sequences of [name, data] entries *)

HasKey(d, n) == \E k \in 1..Len(d) : d[k].name = n

Get(d, n) == d[CHOOSE k \in 1..Len(d) : d[k].name = n].data

\* d[n] = v: replaces the value of an existing key in place, else appends the key
Put(d, n, v) ==
    IF HasKey(d, n)
    THEN [k \in 1..Len(d) |-> IF d[k].name = n THEN [name |-> n, data |-> v] ELSE d[k]]
    ELSE Append(d, [name |-> n, data |-> v])

----------------------------------------------------------------------------
(* The clock *)

\* datetime.now() on day t of the model
DateOf(t) == [year |-> 2026, month |-> 3, day |-> 8 + t]

----------------------------------------------------------------------------
(* Identifier allocation *)

SeqWidth == 5

CHAR == <<"C", "H", "A", "R">>
LOC == <<"L", "O", "C">>
STORY == <<"S", "T", "O", "R", "Y">>

\* existing_ids
ExistingIds(g, prefix) ==
    IF prefix = CHAR THEN [k \in 1..Len(g.characters) |-> g.characters[k].data.id]
    ELSE IF prefix = LOC THEN [k \in 1..Len(g.locations) |-> g.locations[k].data.id]
    ELSE IF prefix = STORY THEN [k \in 1..Len(g.stories) |-> g.stories[k].id]
    ELSE <<>>

\* today_prefix = f"{prefix}{year}{month:02d}{day:02d}"
TodayPrefix(prefix, d) == prefix \o Str(d.year) \o Fmt(d.month, 2) \o Fmt(d.day, 2)

\* Mutant of TodayIds: the filter on today's prefix is left out
TodayIdsAnyDay(g, prefix, d) ==
    LET ids == ExistingIds(g, prefix)
    IN  {ids[k] : k \in 1..Len(ids)}

\* today_ids, as the set of their values
TodayIds(g, prefix, d) ==
    LET ids == ExistingIds(g, prefix)
    IN  {ids[k] : k \in {j \in 1..Len(ids) : StartsWith(ids[j], TodayPrefix(prefix, d))}}

\* sequence = max([int(id[-5:]) for id in today_ids]) + 1, or 1
NextSequence(today_ids) ==
    IF today_ids # {}
    THEN Max({IntVal(Suffix(id, SeqWidth)) : id \in today_ids}) + 1
    ELSE 1

\* generate_id(prefix) called on day t with the graph g.  ok = FALSE stands for
\* the ValueError int() raises on a non-numeric tail.
generate_id(g, prefix, t) ==
    LET d == DateOf(t)
        today_ids == TodayIds(g, prefix, d)
    IN  IF \E id \in today_ids : ~IntOk(Suffix(id, SeqWidth))
        THEN [ok |-> FALSE, id |-> <<>>]
        ELSE [ok |-> TRUE,
              id |-> TodayPrefix(prefix, d) \o Fmt(NextSequence(today_ids), SeqWidth)]

----------------------------------------------------------------------------
(* The graph and the backing file *)

Apps == {"builder", "generator"}

\* The records of a graph: the keys of its two mappings and its stories' ids
GraphRecords(g) ==
    {<<"character", g.characters[k].name>> : k \in 1..Len(g.characters)}
        \cup {<<"location", g.locations[k].name>> : k \in 1..Len(g.locations)}
        \cup {<<"story", g.stories[k].id>> : k \in 1..Len(g.stories)}

\* {'characters': {}, 'locations': {}, 'stories': [], 'last_updated': None}
\* (None is 0; the keys 'relationships' and 'events' are never read or written)
EmptyGraph == [characters |-> <<>>, locations |-> <<>>, stories |-> <<>>,
               last_updated |-> 0]

\* The file is absent, holds a JSON document ("ok"), holds text json.load cannot
\* parse that was there before the program ran ("unparseable"), or holds the
\* remains of a write that failed part-way ("truncated").
Absent == [status |-> "absent", data |-> EmptyGraph]
Unparseable == [status |-> "unparseable", data |-> EmptyGraph]
Truncated == [status |-> "truncated", data |-> EmptyGraph]

\* with open(self.universe_file, 'w') as f: json.dump(g, f, indent=2)
\*   w = "ok":      the document is written;
\*   w = "denied":  open() raises, the file is untouched;
\*   w = "partial": open() truncated the file and the dump raised part-way.
WriteOutcomes == {"ok", "denied", "partial"}

\* Mutant of WriteFile: the document is dumped before save_universe stamped
\* last_updated on the graph
WriteFileBeforeStamp(f, g, w) ==
    IF w = "ok"
    THEN [status |-> "ok",
          data |-> [g EXCEPT !.last_updated =
                                IF f.status = "ok" THEN f.data.last_updated ELSE 0]]
    ELSE IF w = "denied" THEN f
    ELSE Truncated

\* Mutant of WriteFile: the stories the file holds and the written graph lacks
\* are kept at the end of the written document
WriteFileMerging(f, g, w) ==
    IF w = "ok"
    THEN LET Kept(story) == <<"story", story.id>> \notin GraphRecords(g)
         IN  [status |-> "ok",
              data |-> IF f.status = "ok"
                       THEN [g EXCEPT !.stories = @ \o SelectSeq(f.data.stories, Kept)]
                       ELSE g]
    ELSE IF w = "denied" THEN f
    ELSE Truncated

WriteFile(f, g, w) ==
    IF w = "ok" THEN [status |-> "ok", data |-> g]
    ELSE IF w = "denied" THEN f
    ELSE Truncated

\* The records a reader finds in the file
FileRecords(f) == IF f.status = "ok" THEN GraphRecords(f.data) ELSE {}

\* The records the file held that it no longer holds once g was written over it
Dropped(f, g, w) == FileRecords(f) \ FileRecords(WriteFile(f, g, w))

\* UniverseBuilder.load_universe: the graph it leaves in self.universe_data
builder_load_universe(f) ==
    IF f.status = "absent" THEN EmptyGraph
    ELSE IF f.status = "ok" THEN f.data
    ELSE EmptyGraph         \* except Exception: reset to the empty graph

\* StoryGenerator.load_universe, followed by __init__'s 'stories' default
generator_load_universe(f) ==
    IF f.status = "absent" THEN EmptyGraph
    ELSE IF f.status = "ok" THEN f.data
    ELSE EmptyGraph         \* except Exception: reset to the empty graph

\* How load_universe ends: it returns normally in every case
load_result(f) == "returned"

\* UniverseBuilder.save_universe: the stamp it puts on the graph before the dump
save_universe(g, t) == [g EXCEPT !.last_updated = t]

----------------------------------------------------------------------------
(* add_character / add_location *)

Min(S) == CHOOSE m \in S : \A x \in S : m <= x

\* Mutant of FirstMatch: the names are compared as typed, without lower()
FirstMatchExactCase(d, name) ==
    LET M == {k \in 1..Len(d) : d[k].name = name}
    IN  IF M = {} THEN 0 ELSE Min(M)

\* for char_name, char_data in d.items(): if char_name.lower() == name_lower: break
\* The index of the first entry that matches ignoring case, 0 when none does.
FirstMatch(d, name) ==
    LET M == {k \in 1..Len(d) : Lower(d[k].name) = Lower(name)}
    IN  IF M = {} THEN 0 ELSE Min(M)

\* The graph add_character leaves in memory before save_universe.
\* ok = FALSE: generate_id raised and nothing was changed.
\* (Every record the program writes has 'story_appearances', so the test
\* "if 'story_appearances' in existing_char" succeeds.)
add_character(g, name, attributes, t) ==
    LET m == FirstMatch(g.characters, name)
        gen == generate_id(g, CHAR, t)
    IN  IF m # 0
        THEN LET existing_char == g.characters[m].data
                 rec == [id |-> existing_char.id,
                         created_date |-> existing_char.created_date,
                         story_appearances |-> existing_char.story_appearances,
                         last_updated |-> t,
                         powers |-> attributes.powers,
                         description |-> attributes.description]
             IN  [ok |-> TRUE, g |-> [g EXCEPT !.characters = Put(@, name, rec)]]
        ELSE IF ~gen.ok THEN [ok |-> FALSE, g |-> g]
        ELSE LET rec == [id |-> gen.id,
                         created_date |-> t,
                         story_appearances |-> <<>>,
                         last_updated |-> t,
                         powers |-> attributes.powers,
                         description |-> attributes.description]
             IN  [ok |-> TRUE, g |-> [g EXCEPT !.characters = Put(@, name, rec)]]

add_location(g, name, details, t) ==
    LET m == FirstMatch(g.locations, name)
        gen == generate_id(g, LOC, t)
    IN  IF m # 0
        THEN LET existing_loc == g.locations[m].data
                 rec == [id |-> existing_loc.id,
                         created_date |-> existing_loc.created_date,
                         story_appearances |-> existing_loc.story_appearances,
                         last_updated |-> t,
                         description |-> details.description]
             IN  [ok |-> TRUE, g |-> [g EXCEPT !.locations = Put(@, name, rec)]]
        ELSE IF ~gen.ok THEN [ok |-> FALSE, g |-> g]
        ELSE LET rec == [id |-> gen.id,
                         created_date |-> t,
                         story_appearances |-> <<>>,
                         last_updated |-> t,
                         description |-> details.description]
             IN  [ok |-> TRUE, g |-> [g EXCEPT !.locations = Put(@, name, rec)]]
----------------------------------------------------------------------------
(* save_story_to_universe *)

\* Mutant of IdsOf: the selected names are stored instead of the records' ids
NamesOf(d, names) == names

\* [self.universe_data['characters'][char]['id'] for char in metadata['characters']]
IdsOf(d, names) == [k \in 1..Len(names) |-> Get(d, names[k]).id]

\* Mutant of AppendAppearances: the story id is appended to every record of
\* the mapping, not only to the selected ones
AppendAppearancesToAll(d, names, story_id) ==
    [k \in 1..Len(d) |->
        [d[k] EXCEPT !.data.story_appearances = Append(@, story_id)]]

\* for char in metadata['characters']:
\*     self.universe_data['characters'][char]['story_appearances'].append(story_id)
RECURSIVE AppendAppearances(_, _, _)
AppendAppearances(d, names, story_id) ==
    IF Len(names) = 0 THEN d
    ELSE LET n == Head(names)
             rec == Get(d, n)
         IN  AppendAppearances(
                 Put(d, n, [rec EXCEPT !.story_appearances = Append(@, story_id)]),
                 Tail(names), story_id)

\* story_entry
StoryEntry(g, story_id, story_data, metadata, t) ==
    [id |-> story_id,
     title |-> Strip(story_data.title),
     content |-> Strip(story_data.story),
     moral_lesson |-> Strip(story_data.moral),
     metadata |-> [generated_date |-> t,
                   theme |-> metadata.theme,
                   target_age |-> metadata.target_age,
                   word_count |-> metadata.word_count,
                   characters_used |-> IdsOf(g.characters, metadata.characters),
                   locations_used |-> IdsOf(g.locations, metadata.locations)]]

\* Mutant of HasContent: only the content is tested
HasBody(story_entry) == story_entry.content # <<>>

\* Mutant of HasContent: only the title is tested
HasTitle(story_entry) == story_entry.title # <<>>

\* if story_entry['title'] and story_entry['content']:
HasContent(story_entry) == story_entry.title # <<>> /\ story_entry.content # <<>>

\* Mutant of save_story_to_universe: the entry is put before the stories held
save_story_to_universe_first(g, story_data, metadata, t) ==
    LET gen == generate_id(g, STORY, t)
        story_entry == StoryEntry(g, gen.id, story_data, metadata, t)
    IN  IF ~gen.ok THEN [kind |-> "raised", id |-> <<>>, g |-> g]
        ELSE IF HasContent(story_entry)
        THEN [kind |-> "saved", id |-> gen.id,
              g |-> [g EXCEPT
                       !.stories = <<story_entry>> \o @,
                       !.characters =
                           AppendAppearances(@, metadata.characters, gen.id),
                       !.locations =
                           AppendAppearances(@, metadata.locations, gen.id)]]
        ELSE [kind |-> "false", id |-> <<>>, g |-> g]

\* The graph save_story_to_universe leaves in memory, before the file is written.
\*   kind = "raised": generate_id raised, nothing was changed;
\*   kind = "false":  the entry has no title or no content, nothing was changed;
\*   kind = "saved":  the entry and its back-references were added.
save_story_to_universe(g, story_data, metadata, t) ==
    LET gen == generate_id(g, STORY, t)
        story_entry == StoryEntry(g, gen.id, story_data, metadata, t)
    IN  IF ~gen.ok THEN [kind |-> "raised", id |-> <<>>, g |-> g]
        ELSE IF HasContent(story_entry)
        THEN [kind |-> "saved", id |-> gen.id,
              g |-> [g EXCEPT
                       !.stories = Append(@, story_entry),
                       !.characters =
                           AppendAppearances(@, metadata.characters, gen.id),
                       !.locations =
                           AppendAppearances(@, metadata.locations, gen.id)]]
        ELSE [kind |-> "false", id |-> <<>>, g |-> g]

----------------------------------------------------------------------------
(* Inputs *)

\* Names typed into the builder's forms: the universe built earlier holds the
\* character "am" and the location "p"
CharacterNames == {<<"A", "m">>, <<"a", "m">>, <<"Z">>}
LocationNames == {<<"P">>, <<"p">>}

\* Names typed in after the start
NewCharacterNames == {<<"A", "m">>, <<"Z">>}
NewLocationNames == {<<"P">>}

\* character_data / location_data built from the form fields (the universe
\* built earlier was given other values)
CharacterAttributes == {[powers |-> <<"run">>, description |-> "a boy"]}
LocationDetails == {[description |-> "a school"]}

\* story_data as main() builds it from the parsed sections
StoryDatas ==
    {[title |-> <<"T", " ">>, story |-> <<" ", "B">>, moral |-> <<"M">>],
     [title |-> <<" ">>,      story |-> <<"B">>,      moral |-> <<"M">>],
     [title |-> <<"T">>,      story |-> <<>>,         moral |-> <<>>]}

\* Lists of at most n distinct elements of S: what st.multiselect returns
Selections(S, n) ==
    {s \in UNION {[1..k -> S] : k \in 0..n} :
        \A a, b \in 1..Len(s) : a # b => s[a] # s[b]}

\* metadata as main() builds it from the form
Metadatas ==
    {[theme |-> "Courage", target_age |-> "6-8", word_count |-> 200,
      characters |-> cs, locations |-> ls] :
        cs \in Selections(CharacterNames, MaxRefs),
        ls \in Selections(LocationNames, MaxRefs)}

\* main() offers only get_available_characters() / get_available_locations():
\* every selected name is a key of the generator's graph
Available(g, metadata) ==
    /\ \A k \in 1..Len(metadata.characters) : HasKey(g.characters, metadata.characters[k])
    /\ \A k \in 1..Len(metadata.locations) : HasKey(g.locations, metadata.locations[k])

----------------------------------------------------------------------------
(* The state machine *)

NoCall == [op |-> "none", app |-> "none", kind |-> "none", id |-> <<>>,
           name |-> <<>>, attributes |-> [description |-> ""],
           title |-> <<>>, story |-> <<>>,
           characters |-> <<>>, locations |-> <<>>,
           dropped |-> {}]

NoArg == [fn |-> "none"]

\* A universe the program built earlier on day 0: a character, a location and
\* a story that uses both
BuiltUniverse ==
    LET g1 == save_universe(
                  add_character(EmptyGraph, <<"a", "m">>,
                                [powers |-> <<"fly">>,
                                 description |-> "a girl with lightning"], 0).g, 0)
        g2 == save_universe(
                  add_location(g1, <<"p">>, [description |-> "a park"], 0).g, 0)
    IN  save_story_to_universe(
            g2,
            [title |-> <<"T">>, story |-> <<"B">>, moral |-> <<"M">>],
            [theme |-> "Courage", target_age |-> "6-8", word_count |-> 200,
             characters |-> << <<"a", "m">> >>, locations |-> << <<"p">> >>],
            0).g

\* Both applications have been started on a file that is absent, unreadable, or
\* holds the universe built earlier
Init ==
    /\ file \in {Absent, Unparseable, [status |-> "ok", data |-> BuiltUniverse]}
    /\ universe_data = [a \in Apps |-> IF a = "builder"
                                        THEN builder_load_universe(file)
                                        ELSE generator_load_universe(file)]
    /\ now = 0
    /\ calls = 0
    /\ last = NoCall
    /\ arg = NoArg
    /\ res = NoArg

\* Time passes between two calls
Tick ==
    /\ now < MaxNow
    /\ now' = now + 1
    /\ UNCHANGED <<file, universe_data, calls, last, arg, res>>

\* UniverseBuilder(): every Streamlit rerun constructs the object anew, and the
\* constructor runs load_universe
BuilderLoad ==
    /\ universe_data' = [universe_data EXCEPT !["builder"] = builder_load_universe(file)]
    /\ last' = [NoCall EXCEPT !.op = "load_universe", !.app = "builder",
                              !.kind = load_result(file)]
    /\ UNCHANGED <<file, now, calls, arg, res>>

\* StoryGenerator()
GeneratorLoad ==
    /\ universe_data' = [universe_data EXCEPT !["generator"] = generator_load_universe(file)]
    /\ last' = [NoCall EXCEPT !.op = "load_universe", !.app = "generator",
                              !.kind = load_result(file)]
    /\ UNCHANGED <<file, now, calls, arg, res>>

\* builder.add_character(name, attributes), save_universe included
AddCharacter(name, attributes, w) ==
    /\ calls < MaxCalls
    /\ LET r == add_character(universe_data["builder"], name, attributes, now)
           g == save_universe(r.g, now)
       IN  IF r.ok
           THEN /\ universe_data' = [universe_data EXCEPT !["builder"] = g]
                /\ file' = WriteFile(file, g, w)
                /\ last' = [NoCall EXCEPT !.op = "add_character", !.app = "builder",
                                          !.name = name, !.attributes = attributes,
                                          !.kind = IF w = "ok" THEN "true" ELSE "raised",
                                          !.dropped = Dropped(file, g, w)]
           ELSE /\ UNCHANGED <<universe_data, file>>
                /\ last' = [NoCall EXCEPT !.op = "add_character", !.app = "builder",
                                          !.name = name, !.attributes = attributes,
                                          !.kind = "raised"]
    /\ calls' = calls + 1
    /\ UNCHANGED <<now, arg, res>>

\* builder.add_location(name, details), save_universe included
AddLocation(name, details, w) ==
    /\ calls < MaxCalls
    /\ LET r == add_location(universe_data["builder"], name, details, now)
           g == save_universe(r.g, now)
       IN  IF r.ok
           THEN /\ universe_data' = [universe_data EXCEPT !["builder"] = g]
                /\ file' = WriteFile(file, g, w)
                /\ last' = [NoCall EXCEPT !.op = "add_location", !.app = "builder",
                                          !.name = name, !.attributes = details,
                                          !.kind = IF w = "ok" THEN "true" ELSE "raised",
                                          !.dropped = Dropped(file, g, w)]
           ELSE /\ UNCHANGED <<universe_data, file>>
                /\ last' = [NoCall EXCEPT !.op = "add_location", !.app = "builder",
                                          !.name = name, !.attributes = details,
                                          !.kind = "raised"]
    /\ calls' = calls + 1
    /\ UNCHANGED <<now, arg, res>>

\* generator.save_story_to_universe(story_data, metadata), file write included.
\* It returns the story id, None when the write raised, False when rejected.
SaveStory(story_data, metadata, w) ==
    /\ calls < MaxCalls
    /\ Available(universe_data["generator"], metadata)
    /\ LET r == save_story_to_universe(universe_data["generator"], story_data,
                                       metadata, now)
           call == [NoCall EXCEPT !.op = "save_story_to_universe",
                                  !.app = "generator",
                                  !.title = story_data.title,
                                  !.story = story_data.story]
       IN  IF r.kind = "saved"
           THEN /\ universe_data' = [universe_data EXCEPT !["generator"] = r.g]
                /\ file' = WriteFile(file, r.g, w)
                /\ last' = [call EXCEPT !.kind = IF w = "ok" THEN "id" ELSE "none",
                                        !.id = IF w = "ok" THEN r.id ELSE <<>>,
                                        !.characters = metadata.characters,
                                        !.locations = metadata.locations,
                                        !.dropped = Dropped(file, r.g, w)]
           ELSE /\ UNCHANGED <<universe_data, file>>
                /\ last' = [call EXCEPT !.kind = r.kind]
    /\ calls' = calls + 1
    /\ UNCHANGED <<now, arg, res>>

Next ==
    \/ Tick
    \/ BuilderLoad
    \/ GeneratorLoad
    \/ \E name \in NewCharacterNames, attributes \in CharacterAttributes,
          w \in WriteOutcomes : AddCharacter(name, attributes, w)
    \/ \E name \in NewLocationNames, details \in LocationDetails,
          w \in WriteOutcomes : AddLocation(name, details, w)
    \/ \E story_data \in StoryDatas, metadata \in Metadatas,
          w \in WriteOutcomes : SaveStory(story_data, metadata, w)

Spec == Init /\ [][Next]_vars
----------------------------------------------------------------------------
(* Identifier allocation on its own: generate_id applied to graphs holding    *)
(* chosen sets of identifiers                                                 *)

MaxExisting == 3    \* identifiers of the prefix already in the graph

Prefixes == {CHAR, LOC, STORY}

\* Sequence numbers of the identifiers already held: low ones, a gap, and the
\* largest ones the five-digit field can hold
HeldSequences == {1, 2, 7, 99998, 99999}

\* The identifiers a graph may hold for a prefix: <prefix><YYYYMMDD><SEQ5>
HeldIds(prefix) ==
    {TodayPrefix(prefix, DateOf(t)) \o Fmt(n, SeqWidth) :
        t \in 0..MaxNow, n \in HeldSequences}

RECURSIVE SetToSeq(_)
SetToSeq(S) == IF S = {} THEN <<>>
               ELSE LET x == CHOOSE y \in S : TRUE
                    IN  <<x>> \o SetToSeq(S \ {x})

\* A graph whose collection for the prefix holds records with the given ids
GraphHolding(prefix, ids) ==
    LET s == SetToSeq(ids)
        chars == [k \in 1..Len(s) |->
                    [name |-> Str(k),
                     data |-> [id |-> s[k], created_date |-> 1,
                               story_appearances |-> <<>>, last_updated |-> 1,
                               powers |-> <<>>, description |-> ""]]]
        locs == [k \in 1..Len(s) |->
                    [name |-> Str(k),
                     data |-> [id |-> s[k], created_date |-> 1,
                               story_appearances |-> <<>>, last_updated |-> 1,
                               description |-> ""]]]
        stories == [k \in 1..Len(s) |->
                    [id |-> s[k], title |-> <<"T">>, content |-> <<"B">>,
                     moral_lesson |-> <<>>,
                     metadata |-> [generated_date |-> 1, theme |-> "Courage",
                                   target_age |-> "6-8", word_count |-> 200,
                                   characters_used |-> <<>>,
                                   locations_used |-> <<>>]]]
    IN  [EmptyGraph EXCEPT
            !.characters = IF prefix = CHAR THEN chars ELSE <<>>,
            !.locations = IF prefix = LOC THEN locs ELSE <<>>,
            !.stories = IF prefix = STORY THEN stories ELSE <<>>]

InitAlloc ==
    /\ file = Absent
    /\ universe_data = [a \in Apps |-> EmptyGraph]
    /\ now \in 0..MaxNow
    /\ calls = 0
    /\ last = NoCall
    /\ \E prefix \in Prefixes :
         \E ids \in {S \in SUBSET HeldIds(prefix) : Cardinality(S) <= MaxExisting} :
            arg = [fn |-> "generate_id", prefix |-> prefix, existing |-> ids]
    /\ res = NoArg

\* generate_id(prefix) on the graph holding arg.existing
Allocate ==
    /\ res = NoArg
    /\ LET r == generate_id(GraphHolding(arg.prefix, arg.existing), arg.prefix, now)
       IN  res' = [fn |-> "generate_id", ok |-> r.ok, id |-> r.id]
    /\ UNCHANGED <<file, universe_data, now, calls, last, arg>>

NextAlloc == Allocate

SpecAlloc == InitAlloc /\ [][NextAlloc]_vars

----------------------------------------------------------------------------
(* Identifier allocation for any prefix, on graphs that also hold identifiers *)
(* the program did not write                                                  *)

\* A record-type prefix the program has no collection for
PET == <<"P", "E", "T">>

AnyPrefixes == Prefixes \cup {PET}

\* Last five characters of identifiers found in a file that was edited or
\* damaged outside the program
ForeignTails ==
    {<<"0", "0", "0", "0", "x">>,
     <<"+", "0", "0", "0", "7">>,
     <<"0", "_", "0", "0", "7">>,
     <<"-", "0", "0", "0", "7">>}

ForeignIds(prefix) ==
    {TodayPrefix(prefix, DateOf(t)) \o tail : t \in 0..MaxNow, tail \in ForeignTails}
        \cup {TodayPrefix(prefix, DateOf(t)) \o Fmt(7, SeqWidth) : t \in 0..MaxNow}

\* The graph has no collection for a prefix other than CHAR, LOC and STORY
InitAllocAny ==
    /\ file = Absent
    /\ universe_data = [a \in Apps |-> EmptyGraph]
    /\ now \in 0..MaxNow
    /\ calls = 0
    /\ last = NoCall
    /\ \E prefix \in AnyPrefixes :
         \E ids \in {S \in SUBSET ForeignIds(prefix) :
                        /\ Cardinality(S) <= MaxExisting
                        /\ prefix \notin Prefixes => S = {}} :
            arg = [fn |-> "generate_id", prefix |-> prefix, existing |-> ids]
    /\ res = NoArg

SpecAllocAny == InitAllocAny /\ [][NextAlloc]_vars

----------------------------------------------------------------------------
(* Reading an identifier by its fields: <PREFIX> <YYYY> <MM> <DD> <SEQ> *)

IdYear(prefix, id) == IntVal(SubSeq(id, Len(prefix) + 1, Len(prefix) + 4))
IdMonth(prefix, id) == IntVal(SubSeq(id, Len(prefix) + 5, Len(prefix) + 6))
IdDay(prefix, id) == IntVal(SubSeq(id, Len(prefix) + 7, Len(prefix) + 8))
IdSequence(prefix, id) == IntVal(SubSeq(id, Len(prefix) + 9, Len(id)))

IdIsOfDay(prefix, id, d) ==
    /\ IdYear(prefix, id) = d.year
    /\ IdMonth(prefix, id) = d.month
    /\ IdDay(prefix, id) = d.day

\* C1: for every prefix in {CHAR, LOC, STORY} and every set of identifiers the
\* graph holds for it, generate_id returns <prefix><YYYYMMDD of today><seq>,
\* where seq is one more than the largest sequence number among the held
\* identifiers of today, and 1 when no held identifier is of today; identifiers
\* of other days do not count.
C1_NextSequenceOfDay ==
    res # NoArg =>
        LET same_day == {id \in arg.existing : IdIsOfDay(arg.prefix, id, DateOf(now))}
            expected == IF same_day = {} THEN 1
                        ELSE 1 + Max({IdSequence(arg.prefix, id) : id \in same_day})
        IN  /\ res.ok
            /\ SubSeq(res.id, 1, Len(arg.prefix)) = arg.prefix
            /\ Len(res.id) >= Len(arg.prefix) + 8 + SeqWidth
            /\ IdIsOfDay(arg.prefix, res.id, DateOf(now))
            /\ IdSequence(arg.prefix, res.id) = expected
            /\ \A k \in Len(arg.prefix) + 1 .. Len(res.id) : IsDigit(res.id[k])

\* C1 witness: identifiers of today (not ending at the largest one listed last)
\* and of another day are held, and the allocation has been made
C1_Witness ==
    /\ res # NoArg
    /\ \E id \in arg.existing : IdIsOfDay(arg.prefix, id, DateOf(now))
                                /\ IdSequence(arg.prefix, id) = 7
    /\ \E id \in arg.existing : ~IdIsOfDay(arg.prefix, id, DateOf(now))
                                /\ IdSequence(arg.prefix, id) = 99999
    /\ IdSequence(arg.prefix, res.id) = 8
----------------------------------------------------------------------------
(* Properties of the store *)

Graphs == {universe_data[a] : a \in Apps}
               \cup (IF file.status = "ok" THEN {file.data} ELSE {})

\* C2: in a graph built by add_character, add_location and
\* save_story_to_universe calls from an empty graph, no two distinct entries
\* of one collection (characters, locations, stories) carry the same id.
C2_IdsUniquePerCollection ==
    \A a \in Apps :
        LET g == universe_data[a]
        IN  /\ \A j, k \in 1..Len(g.characters) :
                 j # k => g.characters[j].data.id # g.characters[k].data.id
            /\ \A j, k \in 1..Len(g.locations) :
                 j # k => g.locations[j].data.id # g.locations[k].data.id
            /\ \A j, k \in 1..Len(g.stories) :
                 j # k => g.stories[j].id # g.stories[k].id

\* Two letters are the same ignoring case
SameLetter(c, e) ==
    \/ c = e
    \/ \E k \in 1..Len(UpperLetters) :
          {c, e} = {UpperLetters[k], LowerLetters[k]}

SameIgnoringCase(s, u) ==
    /\ Len(s) = Len(u)
    /\ \A k \in 1..Len(s) : SameLetter(s[k], u[k])

\* C3: names are unique ignoring case: no two keys of the characters mapping,
\* and no two keys of the locations mapping, are equal when compared ignoring
\* case, also after an existing name was submitted again in another case.
C3_NamesUniqueIgnoringCase ==
    \A a \in Apps :
        LET g == universe_data[a]
        IN  /\ \A j, k \in 1..Len(g.characters) :
                 j # k => ~SameIgnoringCase(g.characters[j].name, g.characters[k].name)
            /\ \A j, k \in 1..Len(g.locations) :
                 j # k => ~SameIgnoringCase(g.locations[j].name, g.locations[k].name)
\* The entry of d that a submitted name matches ignoring case: the first one
\* in the mapping's order, 0 when there is none
MatchedEntry(d, name) ==
    LET M == {k \in 1..Len(d) : SameIgnoringCase(d[k].name, name)}
    IN  IF M = {} THEN 0 ELSE CHOOSE k \in M : \A j \in M : k <= j

IdsIn(d) == {d[k].data.id : k \in 1..Len(d)}

\* C4: when add_character (or add_location) is called with a name that matches
\* an existing record ignoring case, the record stored for the submitted name
\* after the call has the id, the created_date and the story_appearances the
\* matched record had before the call, every other attribute has the submitted
\* value, and no new identifier is allocated.
C4_ResubmitKeepsIdentity ==
    [][/\ (/\ calls' # calls
           /\ last'.op = "add_character"
           /\ MatchedEntry(universe_data["builder"].characters, last'.name) # 0)
          => LET d == universe_data["builder"].characters
                 old == d[MatchedEntry(d, last'.name)].data
                 new == Get(universe_data'["builder"].characters, last'.name)
             IN  /\ new.id = old.id
                 /\ new.created_date = old.created_date
                 /\ new.story_appearances = old.story_appearances
                 /\ new.powers = last'.attributes.powers
                 /\ new.description = last'.attributes.description
                 /\ IdsIn(universe_data'["builder"].characters) = IdsIn(d)
       /\ (/\ calls' # calls
           /\ last'.op = "add_location"
           /\ MatchedEntry(universe_data["builder"].locations, last'.name) # 0)
          => LET d == universe_data["builder"].locations
                 old == d[MatchedEntry(d, last'.name)].data
                 new == Get(universe_data'["builder"].locations, last'.name)
             IN  /\ new.id = old.id
                 /\ new.created_date = old.created_date
                 /\ new.story_appearances = old.story_appearances
                 /\ new.description = last'.attributes.description
                 /\ IdsIn(universe_data'["builder"].locations) = IdsIn(d)
      ]_vars

\* C4 witness: a character that appears in a story was submitted again, later,
\* in another letter case and with another description
C4_Witness ==
    /\ last.op = "add_character"
    /\ LET d == universe_data["builder"].characters
       IN  \E j, k \in 1..Len(d) :
              /\ j # k
              /\ d[k].name = last.name
              /\ SameIgnoringCase(d[j].name, d[k].name)
              /\ d[k].data.id = d[j].data.id
              /\ d[k].data.created_date < d[k].data.last_updated
              /\ d[k].data.story_appearances # <<>>
              /\ d[k].data.description # d[j].data.description

\* A text that is empty after trimming whitespace
Blank(s) == \A k \in 1..Len(s) : s[k] \in {" ", "\n"}

\* C5: save_story_to_universe called with a title or a story body that is
\* empty after trimming whitespace returns False, appends no story, changes no
\* story_appearances and does not write the file: graph and file are the same
\* before and after the call.
C5_BlankStoryRejected ==
    [][(/\ calls' # calls
        /\ last'.op = "save_story_to_universe"
        /\ (Blank(last'.title) \/ Blank(last'.story)))
       => (/\ last'.kind = "false"
           /\ universe_data' = universe_data
           /\ file' = file)
      ]_vars

\* C5 witness: a story with a title of blanks only was rejected although the
\* graph has a character and the file is in place
C5_Witness ==
    /\ last.op = "save_story_to_universe"
    /\ last.kind = "false"
    /\ last.title # <<>>
    /\ Blank(last.title)
    /\ ~Blank(last.story)
    /\ universe_data["generator"].characters # <<>>
    /\ file.status = "ok"

Elements(s) == {s[k] : k \in 1..Len(s)}

Occurrences(s, x) == Cardinality({k \in 1..Len(s) : s[k] = x})

\* C6: after a successful save_story_to_universe, every character and location
\* named in the call's metadata has the new story id appended exactly once to
\* its story_appearances, after its previous entries, and the
\* story_appearances of every other record is unchanged.
C6_BackReferencesAppended ==
    [][(/\ calls' # calls
        /\ last'.op = "save_story_to_universe"
        /\ last'.kind = "id")
       => LET g == universe_data["generator"]
              h == universe_data'["generator"]
          IN  /\ Len(h.characters) = Len(g.characters)
              /\ Len(h.locations) = Len(g.locations)
              /\ \A k \in 1..Len(g.characters) :
                   LET before == g.characters[k].data.story_appearances
                       after == h.characters[k].data.story_appearances
                   IN  /\ h.characters[k].name = g.characters[k].name
                       /\ IF g.characters[k].name \in Elements(last'.characters)
                          THEN /\ after = Append(before, last'.id)
                               /\ Occurrences(after, last'.id) = 1
                          ELSE after = before
              /\ \A k \in 1..Len(g.locations) :
                   LET before == g.locations[k].data.story_appearances
                       after == h.locations[k].data.story_appearances
                   IN  /\ h.locations[k].name = g.locations[k].name
                       /\ IF g.locations[k].name \in Elements(last'.locations)
                          THEN /\ after = Append(before, last'.id)
                               /\ Occurrences(after, last'.id) = 1
                          ELSE after = before
              /\ universe_data'["builder"] = universe_data["builder"]
      ]_vars

\* C6 witness: a story naming a character that already appears in a story has
\* been saved while the graph holds another character that the story does not
\* name
C6_Witness ==
    /\ last.op = "save_story_to_universe"
    /\ last.kind = "id"
    /\ LET d == universe_data["generator"].characters
       IN  /\ \E k \in 1..Len(d) :
                /\ d[k].name \in Elements(last.characters)
                /\ Len(d[k].data.story_appearances) = 2
                /\ d[k].data.story_appearances[2] = last.id
           /\ \E k \in 1..Len(d) :
                /\ d[k].name \notin Elements(last.characters)
                /\ d[k].data.story_appearances = <<>>

\* Every back-reference of g points at a story of g that uses the record
BackReferencesValid(g) ==
    /\ \A k \in 1..Len(g.characters) :
         \A sid \in Elements(g.characters[k].data.story_appearances) :
            \E n \in 1..Len(g.stories) :
               /\ g.stories[n].id = sid
               /\ g.characters[k].data.id
                      \in Elements(g.stories[n].metadata.characters_used)
    /\ \A k \in 1..Len(g.locations) :
         \A sid \in Elements(g.locations[k].data.story_appearances) :
            \E n \in 1..Len(g.stories) :
               /\ g.stories[n].id = sid
               /\ g.locations[k].data.id
                      \in Elements(g.stories[n].metadata.locations_used)

\* C7: in every reachable state every id in a character's story_appearances is
\* the id of a story in the stories sequence whose metadata.characters_used
\* contains the character's id, and likewise for locations and locations_used.
C7_BackReferencesValid == \A g \in Graphs : BackReferencesValid(g)

\* C7 witness: a second story has been saved, and a character and a location
\* both appear in two stories
C7_Witness ==
    LET g == universe_data["generator"]
    IN  /\ Len(g.stories) = 2
        /\ \E k \in 1..Len(g.characters) :
              Len(g.characters[k].data.story_appearances) = 2
        /\ \E k \in 1..Len(g.locations) :
              Len(g.locations[k].data.story_appearances) = 2
        /\ file.status = "ok"
        /\ file.data = g

\* C8: if the backing file exists but cannot be parsed, load_universe fails
\* with a corruption error; it never returns normally with the in-memory graph
\* reset to an empty graph.
C8_UnparseableLoadFails ==
    (/\ last.op = "load_universe"
     /\ file.status \in {"unparseable", "truncated"})
    => last.kind = "raised"

\* C9: the store never destroys unreadable data: a backing file whose contents
\* are unparseable is not overwritten or truncated by load_universe followed
\* by add_character, add_location or save_story_to_universe calls.
C9_UnreadableDataKept ==
    [][file.status = "unparseable" => file'.status = "unparseable"]_vars

\* C10: immediately after every successful add_character, add_location or
\* save_story_to_universe call the contents of the backing file equal the
\* in-memory graph of the object that made the call.
C10_FileEqualsMemory ==
    (/\ last.op \in {"add_character", "add_location", "save_story_to_universe"}
     /\ last.kind \in {"true", "id"})
    => (/\ file.status = "ok"
        /\ file.data = universe_data[last.app])

\* C10 witness: a story with a back-reference was saved by the generator, whose
\* graph differs from the builder's
C10_Witness ==
    /\ last.op = "save_story_to_universe"
    /\ last.kind = "id"
    /\ file.status = "ok"
    /\ Len(file.data.stories) >= 1
    /\ \E k \in 1..Len(file.data.characters) :
          file.data.characters[k].data.story_appearances # <<>>
    /\ universe_data["builder"] # universe_data["generator"]

----------------------------------------------------------------------------
(* Failure and interleaving properties of the store *)

\* C11: a mutating store call is all-or-nothing: whenever
\* save_story_to_universe does not return a story id (the story was rejected or
\* the file write failed), the in-memory graph after the call equals the graph
\* before the call.
C11_AllOrNothing ==
    [][(/\ calls' # calls
        /\ last'.op = "save_story_to_universe"
        /\ last'.kind # "id")
       => universe_data'["generator"] = universe_data["generator"]
      ]_vars

\* C12: in every parseable content of the backing file a story is present if
\* and only if its id is in the story_appearances of every character and
\* location its metadata lists: every record whose id a story lists has the
\* story's id in its story_appearances, and every id in a story_appearances is
\* the id of a story that lists the record.
C12_ReaderSeesStoryWithBackReferences ==
    file.status = "ok" =>
        LET g == file.data
        IN  /\ \A n \in 1..Len(g.stories) :
                 /\ \A k \in 1..Len(g.characters) :
                      g.characters[k].data.id
                          \in Elements(g.stories[n].metadata.characters_used)
                      => g.stories[n].id
                             \in Elements(g.characters[k].data.story_appearances)
                 /\ \A k \in 1..Len(g.locations) :
                      g.locations[k].data.id
                          \in Elements(g.stories[n].metadata.locations_used)
                      => g.stories[n].id
                             \in Elements(g.locations[k].data.story_appearances)
            /\ BackReferencesValid(g)

\* C13: every story in the stories sequence of an in-memory graph or of the
\* backing file, in every reachable state, has a non-empty title and a
\* non-empty content.
C13_StoriesHaveTitleAndContent ==
    \A g \in Graphs :
        \A n \in 1..Len(g.stories) :
            /\ g.stories[n].title # <<>>
            /\ g.stories[n].content # <<>>

\* C13 witness: a story submitted with whitespace around its title and its
\* body was saved and is in the file with both trimmed
C13_Witness ==
    /\ last.op = "save_story_to_universe"
    /\ last.kind = "id"
    /\ last.title = <<"T", " ">>
    /\ last.story = <<" ", "B">>
    /\ file.status = "ok"
    /\ \E n \in 1..Len(file.data.stories) :
          /\ file.data.stories[n].id = last.id
          /\ file.data.stories[n].title = <<"T">>
          /\ file.data.stories[n].content = <<"B">>

\* C19: a successful mutating call writes the calling object's own graph over
\* the file without looking at what the file holds: every record the file held
\* that the caller's graph lacks is absent from the file after the call, and
\* the call reports success.  With two objects that loaded the file this is a
\* silent lost update.
C19_WriteOverwritesOtherInstance ==
    [][(/\ calls' # calls
        /\ last'.kind \in {"true", "id"})
       => (/\ file'.status = "ok"
           /\ \A r \in FileRecords(file) :
                 r \notin GraphRecords(universe_data'[last'.app])
                 => (r \notin FileRecords(file') /\ r \in last'.dropped))
      ]_vars

\* C19 witness: both objects loaded the universe built earlier; one of them
\* persisted a new record, and the other one's successful call then removed
\* that record from the file
C19_Witness ==
    /\ last.kind \in {"true", "id"}
    /\ file.status = "ok"
    /\ \E r \in last.dropped :
          /\ r \notin GraphRecords(BuiltUniverse)
          /\ r \notin FileRecords(file)
          /\ IF last.app = "builder"
             THEN r[1] = "story" /\ r \in GraphRecords(universe_data["generator"])
             ELSE r[1] \in {"character", "location"}
                  /\ r \in GraphRecords(universe_data["builder"])

----------------------------------------------------------------------------
(* The story section parser of main() *)

MaxBlocks == 4      \* blocks of a generated raw text

\* old.join(parts)
RECURSIVE Join(_, _)
Join(parts, sep) ==
    IF Len(parts) = 0 THEN <<>>
    ELSE IF Len(parts) = 1 THEN parts[1]
    ELSE parts[1] \o sep \o Join(Tail(parts), sep)

\* s.split(sep): the pieces between the occurrences of sep, found left to right
RECURSIVE SplitFrom(_, _, _)
SplitFrom(s, sep, piece) ==
    IF Len(s) = 0 THEN <<piece>>
    ELSE IF StartsWith(s, sep)
    THEN <<piece>> \o SplitFrom(SubSeq(s, Len(sep) + 1, Len(s)), sep, <<>>)
    ELSE SplitFrom(Tail(s), sep, Append(piece, s[1]))

Split(s, sep) == SplitFrom(s, sep, <<>>)

\* s.replace(old, ''): every occurrence of old, found left to right, is removed
RECURSIVE Remove(_, _)
Remove(s, old) ==
    IF Len(s) = 0 THEN <<>>
    ELSE IF StartsWith(s, old) THEN Remove(SubSeq(s, Len(old) + 1, Len(s)), old)
    ELSE <<s[1]>> \o Remove(Tail(s), old)

BlankLine == <<"\n", "\n">>

TitleLabel == <<"T", "i", "t", "l", "e", ":">>
StoryLabel == <<"S", "t", "o", "r", "y", ":">>
MoralLabel == <<"M", "o", "r", "a", "l", " ", "L", "e", "s", "s", "o", "n", ":">>

\* Mutant of StartsWithLabel: the label is looked for anywhere in the section
ContainsLabel(section, label) ==
    \E k \in 1..Len(section) : StartsWith(SubSeq(section, k, Len(section)), label)

\* section.startswith('Title:'), section.startswith('Story:'),
\* section.startswith('Moral Lesson:')
StartsWithLabel(section, label) == StartsWith(section, label)

\* The variables of the loop before the first section is scanned
ScanStart(story) ==
    [fn |-> "parse", sections |-> Split(story, BlankLine), pos |-> 0,
     title |-> <<>>, moral |-> <<>>, story_section |-> FALSE,
     story_content |-> <<>>, story_text |-> <<>>, done |-> FALSE]

\* One iteration of "for section in sections"
ScanOne(st) ==
    LET section == Strip(st.sections[st.pos + 1])
        is_title == StartsWithLabel(Strip(section), TitleLabel)
        is_story == ~is_title /\ StartsWithLabel(section, StoryLabel)
        is_moral == ~is_title /\ ~is_story /\ StartsWithLabel(section, MoralLabel)
        story_section == IF is_story THEN TRUE
                         ELSE IF is_moral THEN FALSE
                         ELSE st.story_section
    IN  [st EXCEPT
            !.pos = @ + 1,
            !.title = IF is_title THEN Strip(Remove(section, TitleLabel)) ELSE @,
            !.moral = IF is_moral THEN Strip(Remove(section, MoralLabel)) ELSE @,
            !.story_section = story_section,
            !.story_content = IF story_section THEN Append(@, section) ELSE @]

\* story_text = '\n\n'.join(story_content)
JoinContent(st) ==
    [st EXCEPT !.story_text = Join(st.story_content, BlankLine), !.done = TRUE]

\* story_data
ParsedStory(st) == [title |-> st.title, story |-> st.story_text, moral |-> st.moral]

\* The raw text of the round-trip example:
\* "Title: X\n\nStory:\n\nFirst part.\n\nSecond part.\n\nMoral Lesson:\n\nBe kind."
FirstPart == <<"F", "i", "r", "s", "t", " ", "p", "a", "r", "t", ".">>
SecondPart == <<"S", "e", "c", "o", "n", "d", " ", "p", "a", "r", "t", ".">>
BeKind == <<"B", "e", " ", "k", "i", "n", "d", ".">>
TitleX == TitleLabel \o <<" ", "X">>

LabelledBlocks == <<TitleX, StoryLabel, FirstPart, SecondPart, MoralLabel, BeKind>>

\* Blocks a generated text is made of: the three labels followed by text on
\* the same line, a narrative block, and a block that holds a label after
\* other text and begins with a space
Blocks ==
    {TitleX,
     StoryLabel \o <<" ", "S", ".">>,
     <<"A", ".">>,
     MoralLabel \o <<" ", "K", ".">>,
     <<" ", "b", " ">> \o StoryLabel}

\* The raw texts the generator may return (never the empty text: "if story:")
RawTexts ==
    {Join(LabelledBlocks, BlankLine), Join(<<TitleX, StoryLabel>>, BlankLine)}
        \cup {Join(bs, BlankLine) : bs \in UNION {[1..n -> Blocks] : n \in 1..MaxBlocks}}

\* The generator returned a raw text; the application holds the universe built
\* earlier
InitParse ==
    /\ file = [status |-> "ok", data |-> BuiltUniverse]
    /\ universe_data = [a \in Apps |-> IF a = "builder"
                                        THEN builder_load_universe(file)
                                        ELSE generator_load_universe(file)]
    /\ now = 0
    /\ calls = 0
    /\ last = NoCall
    /\ \E story \in RawTexts :
         /\ arg = [fn |-> "parse", story |-> story]
         /\ res = ScanStart(story)

ScanSection ==
    /\ ~res.done
    /\ res.pos < Len(res.sections)
    /\ res' = ScanOne(res)
    /\ UNCHANGED <<file, universe_data, now, calls, last, arg>>

JoinStory ==
    /\ ~res.done
    /\ res.pos = Len(res.sections)
    /\ res' = JoinContent(res)
    /\ UNCHANGED <<file, universe_data, now, calls, last, arg>>

\* The parsed sections are handed to save_story_to_universe, once
SaveParsed(metadata, w) ==
    /\ res.done
    /\ calls = 0
    /\ SaveStory(ParsedStory(res), metadata, w)

NextParse ==
    \/ ScanSection
    \/ JoinStory
    \/ \E metadata \in Metadatas, w \in WriteOutcomes : SaveParsed(metadata, w)

SpecParse == InitParse /\ [][NextParse]_vars

----------------------------------------------------------------------------
(* Properties of the parser *)

\* The blocks of the raw text, as a reader of the text sees them
BlocksOf(story) == Split(story, BlankLine)

BeginsWithLabel(block) ==
    \/ StartsWith(Strip(block), TitleLabel)
    \/ StartsWith(Strip(block), StoryLabel)
    \/ StartsWith(Strip(block), MoralLabel)

\* A "Title: X" block, a "Story:" block, one or more narrative blocks, a
\* "Moral Lesson:" block and a moral-text block
IsLabelledText(story) ==
    LET bs == BlocksOf(story)
        n == Len(bs)
    IN  /\ n >= 5
        /\ StartsWith(bs[1], TitleLabel)
        /\ bs[2] = StoryLabel
        /\ bs[n - 1] = MoralLabel
        /\ \A k \in (3..(n - 2)) \cup {n} : ~BeginsWithLabel(bs[k])

\* C14: parsing a raw text made of a "Title: X" block, a "Story:" block, one or
\* more narrative blocks, a "Moral Lesson:" block and a following moral-text
\* block yields title X, a body equal to exactly the narrative blocks joined by
\* a blank line (without the "Story:" label) and a moral equal to the moral
\* text; the example text yields title "X", body "First part.\n\nSecond part."
\* and moral "Be kind.".
C14_LabelledTextParsed ==
    /\ (res.done /\ IsLabelledText(arg.story)) =>
          LET bs == BlocksOf(arg.story)
              n == Len(bs)
          IN  /\ res.title = Strip(SubSeq(bs[1], Len(TitleLabel) + 1, Len(bs[1])))
              /\ res.story_text = Join(SubSeq(bs, 3, n - 2), BlankLine)
              /\ res.moral = bs[n]
    /\ (res.done /\ arg.story = Join(LabelledBlocks, BlankLine)) =>
          /\ res.title = <<"X">>
          /\ res.story_text = FirstPart \o BlankLine \o SecondPart
          /\ res.moral = BeKind

NoLabels(story) ==
    \A k \in 1..Len(BlocksOf(story)) : ~BeginsWithLabel(BlocksOf(story)[k])

\* C15: for every raw text in which no block starts with "Title:", "Story:" or
\* "Moral Lesson:" the parser yields an empty title, an empty body and an empty
\* moral, and save_story_to_universe called with that result returns False and
\* saves nothing.
C15_NoLabelsRejected ==
    [][(NoLabels(arg.story) /\ res'.done)
       => (/\ res'.title = <<>>
           /\ res'.story_text = <<>>
           /\ res'.moral = <<>>
           /\ calls' # calls =>
                 (/\ last'.op = "save_story_to_universe"
                  /\ last'.kind = "false"
                  /\ universe_data' = universe_data
                  /\ file' = file))
      ]_vars

\* C15 witness: a text of several blocks, one of which holds "Story:" after
\* other text, was parsed and the result was rejected
C15_Witness ==
    /\ NoLabels(arg.story)
    /\ Len(res.sections) >= 2
    /\ \E k \in 1..Len(res.sections) : ContainsLabel(res.sections[k], StoryLabel)
    /\ res.done
    /\ last.op = "save_story_to_universe"
    /\ last.kind = "false"
    /\ file.status = "ok"

\* A block starting with "Moral Lesson:" is among the blocks scanned so far
MoralScanned(st) ==
    \E k \in 1..st.pos : StartsWith(Strip(st.sections[k]), MoralLabel)

\* C16: once a block starting with "Moral Lesson:" has been scanned, the
\* body-capturing region is closed for the rest of the text: no block scanned
\* after it, a later "Story:" block included, is appended to the body.
C16_ClosedStaysClosed ==
    [][MoralScanned(res) =>
          (/\ res'.story_content = res.story_content
           /\ ~res'.story_section)
      ]_vars

----------------------------------------------------------------------------
(* Failures of the allocator *)

\* C17: generate_id called with a prefix that is not one of CHAR, LOC, STORY
\* fails with an error: it never returns an identifier.
C17_UnknownPrefixFails ==
    (res # NoArg /\ arg.prefix \notin {CHAR, LOC, STORY}) => ~res.ok

AllDigits(s) == \A k \in 1..Len(s) : s[k] \in {Digits[d] : d \in 1..10}

\* C18: if an existing identifier that matches today's <prefix><YYYYMMDD> has
\* trailing 5 characters that are not all digits, generate_id fails with an
\* error; it returns no identifier computed from the held ones.
C18_MalformedIdFails ==
    (/\ res # NoArg
     /\ \E id \in arg.existing :
           /\ SubSeq(id, 1, Len(arg.prefix) + 8) = TodayPrefix(arg.prefix, DateOf(now))
           /\ ~AllDigits(SubSeq(id, Len(id) - 4, Len(id))))
    => ~res.ok

----------------------------------------------------------------------------
(* The prompt of MinmalAmmuImageBuilder *)

MaxUsed == 2        \* identifiers in a story's characters_used

\* sub in s
Contains(s, sub) ==
    \E k \in 1..(Len(s) + 1) :
        /\ k + Len(sub) - 1 <= Len(s)
        /\ SubSeq(s, k, k + Len(sub) - 1) = sub

\* d.get(key): the position of the key in the mapping, 0 for None
Lookup(d, key) ==
    LET M == {k \in 1..Len(d) : d[k].name = key}
    IN  IF M = {} THEN 0 ELSE Min(M)

\* for name, details in d.items(): if details["id"] == an_id: break
\* The position of the first record with the id, 0 when the loop ends without
LookupById(d, an_id) ==
    LET M == {k \in 1..Len(d) : d[k].data.id = an_id}
    IN  IF M = {} THEN 0 ELSE Min(M)

\* The record an entry of characters_used / locations_used resolves to: the
\* entry is tried as a key first and as an id second
Resolve(d, an_id) ==
    IF Lookup(d, an_id) # 0 THEN Lookup(d, an_id) ELSE LookupById(d, an_id)

\* _get_character_details
RECURSIVE get_character_details(_, _)
get_character_details(g, character_ids) ==
    IF Len(character_ids) = 0 THEN <<>>
    ELSE LET char_id == Head(character_ids)
             k == Resolve(g.characters, char_id)
             rest == get_character_details(g, Tail(character_ids))
         IN  IF k = 0 THEN rest
             ELSE <<[name |-> IF HasKey(g.characters, char_id)
                              THEN char_id ELSE g.characters[k].name,
                     description |-> g.characters[k].data.description,
                     powers |-> g.characters[k].data.powers]>> \o rest

\* _get_location_details
RECURSIVE get_location_details(_, _)
get_location_details(g, location_ids) ==
    IF Len(location_ids) = 0 THEN <<>>
    ELSE LET loc_id == Head(location_ids)
             k == Resolve(g.locations, loc_id)
             rest == get_location_details(g, Tail(location_ids))
         IN  IF k = 0 THEN rest
             ELSE <<[name |-> IF HasKey(g.locations, loc_id)
                              THEN loc_id ELSE g.locations[k].name,
                     description |-> g.locations[k].data.description]>> \o rest

CommaSpace == <<",", " ">>

\* main_features of _get_main_character_features
main_features(char) ==
    LET description == Lower(char.description)
        indian == IF Contains(description, <<"i", "n", "d", "i", "a", "n">>)
                  THEN <<<<"I", "n", "d", "i", "a", "n">>>> ELSE <<>>
        skin == IF Contains(description, <<"b", "r", "o", "w", "n", " ", "s", "k", "i", "n">>)
                THEN <<<<"b", "r", "o", "w", "n", " ", "s", "k", "i", "n">>>> ELSE <<>>
        power == IF char.powers # <<>>
                 THEN IF Contains(char.powers[1], <<"f", "l", "y">>)
                      THEN <<<<"c", "a", "n", " ", "f", "l", "y">>>>
                      ELSE IF Contains(char.powers[1], <<"r", "u", "n">>)
                      THEN <<<<"s", "u", "p", "e", "r", " ", "f", "a", "s", "t">>>>
                      ELSE <<>>
                 ELSE <<>>
    IN  indian \o skin \o power

\* _get_main_character_features
get_main_character_features(char) == Join(main_features(char), CommaSpace)

\* Mutant of get_scene_details: "sunset" is tested before "night" and "evening"
get_scene_details_sunset_first(story) ==
    LET content == Lower(story.content)
        time_of_day ==
            IF Contains(content, <<"s", "u", "n", "s", "e", "t">>)
            THEN <<"s", "u", "n", "s", "e", "t">>
            ELSE IF Contains(content, <<"n", "i", "g", "h", "t">>) \/ Contains(content, <<"e", "v", "e", "n", "i", "n", "g">>)
            THEN <<"n", "i", "g", "h", "t", "t", "i", "m", "e">>
            ELSE IF Contains(content, <<"m", "o", "r", "n", "i", "n", "g">>)
            THEN <<"m", "o", "r", "n", "i", "n", "g">>
            ELSE <<"d", "a", "y", "t", "i", "m", "e">>
        weather ==
            IF Contains(content, <<"r", "a", "i", "n">>) THEN <<"r", "a", "i", "n", "y">>
            ELSE IF Contains(content, <<"s", "t", "o", "r", "m">>) THEN <<"s", "t", "o", "r", "m", "y">>
            ELSE IF Contains(content, <<"c", "l", "o", "u", "d">>) THEN <<"c", "l", "o", "u", "d", "y">>
            ELSE <<"c", "l", "e", "a", "r", " ", "s", "k", "y">>
    IN  time_of_day \o CommaSpace \o weather \o CommaSpace
            \o <<"d", "e", "t", "a", "i", "l", "e", "d", " ", "b", "a", "c", "k", "g", "r", "o", "u", "n", "d">>

\* _get_scene_details
get_scene_details(story) ==
    LET content == Lower(story.content)
        time_of_day ==
            IF Contains(content, <<"n", "i", "g", "h", "t">>) \/ Contains(content, <<"e", "v", "e", "n", "i", "n", "g">>)
            THEN <<"n", "i", "g", "h", "t", "t", "i", "m", "e">>
            ELSE IF Contains(content, <<"s", "u", "n", "s", "e", "t">>)
            THEN <<"s", "u", "n", "s", "e", "t">>
            ELSE IF Contains(content, <<"m", "o", "r", "n", "i", "n", "g">>)
            THEN <<"m", "o", "r", "n", "i", "n", "g">>
            ELSE <<"d", "a", "y", "t", "i", "m", "e">>
        weather ==
            IF Contains(content, <<"r", "a", "i", "n">>) THEN <<"r", "a", "i", "n", "y">>
            ELSE IF Contains(content, <<"s", "t", "o", "r", "m">>) THEN <<"s", "t", "o", "r", "m", "y">>
            ELSE IF Contains(content, <<"c", "l", "o", "u", "d">>) THEN <<"c", "l", "o", "u", "d", "y">>
            ELSE <<"c", "l", "e", "a", "r", " ", "s", "k", "y">>
    IN  time_of_day \o CommaSpace \o weather \o CommaSpace
            \o <<"d", "e", "t", "a", "i", "l", "e", "d", " ", "b", "a", "c", "k", "g", "r", "o", "u", "n", "d">>

\* Mutant of LocationPart: the element is made from the first entry of
\* locations_used, whether or not it resolved to a record
LocationPartFromIds(location_ids, locations) ==
    IF location_ids # <<>> THEN <<<<"a", "t", " ">> \o location_ids[1]>> ELSE <<>>

\* if locations: elements.append(f"at {locations[0]['name']}")
LocationPart(location_ids, locations) ==
    IF locations # <<>> THEN <<<<"a", "t", " ">> \o locations[1].name>> ELSE <<>>

\* if characters: elements.append(f"{main_char['name']}, {features}")
CharacterPart(characters) ==
    IF characters # <<>>
    THEN <<characters[1].name \o CommaSpace
               \o get_main_character_features(characters[1])>>
    ELSE <<>>

Illustration == <<"c", "h", "i", "l", "d", "r", "e", "n", "'", "s", " ", "i", "l", "l", "u", "s", "t", "r", "a", "t", "i", "o", "n", ",", " ">>

\* _create_prompt
create_prompt(g, story) ==
    LET character_ids == story.metadata.characters_used
        location_ids == story.metadata.locations_used
        characters == get_character_details(g, character_ids)
        locations == get_location_details(g, location_ids)
        elements == CharacterPart(characters) \o LocationPart(location_ids, locations)
    IN  Illustration \o Join(elements, CommaSpace)

StyleLabel == <<"S", "t", "y", "l", "e", ":", " ">>
SceneLabel == <<"S", "c", "e", "n", "e", " ", "d", "e", "t", "a", "i", "l", "s", ":", " ">>
QualityLabel == <<"Q", "u", "a", "l", "i", "t", "y", ":", " ">>

\* weighted_prompts of generate_image
weighted_prompts(g, story, style_config) ==
    <<[text |-> create_prompt(g, story),
       weight |-> style_config.weights.main_prompt],
      [text |-> StyleLabel \o style_config.base_style,
       weight |-> style_config.weights.style],
      [text |-> SceneLabel \o get_scene_details(story),
       weight |-> style_config.weights.scene],
      [text |-> QualityLabel \o style_config.quality_boost,
       weight |-> style_config.weights.quality]>>

\* Inputs: the universe file the image builder loaded
AmId == TodayPrefix(CHAR, DateOf(0)) \o Fmt(1, SeqWidth)
ZId == TodayPrefix(CHAR, DateOf(0)) \o Fmt(2, SeqWidth)
GoneCharId == TodayPrefix(CHAR, DateOf(0)) \o Fmt(9, SeqWidth)
ParkId == TodayPrefix(LOC, DateOf(0)) \o Fmt(1, SeqWidth)
GoneLocId == TodayPrefix(LOC, DateOf(0)) \o Fmt(9, SeqWidth)

PromptCharacters ==
    <<[name |-> <<"A", "m">>,
       data |-> [id |-> AmId, created_date |-> 0, last_updated |-> 0,
                 story_appearances |-> <<>>,
                 powers |-> <<<<"c", "a", "n", " ", "f", "l", "y">>>>,
                 description |-> <<"I", "n", "d", "i", "a", "n", " ", "g", "i", "r", "l">>]],
      [name |-> <<"Z">>,
       data |-> [id |-> ZId, created_date |-> 0, last_updated |-> 0,
                 story_appearances |-> <<>>,
                 powers |-> <<<<"R", "u", "n", "s">>>>,
                 description |-> <<"a", " ", "b", "o", "y">>]]>>

PromptLocations ==
    <<[name |-> <<"P">>,
       data |-> [id |-> ParkId, created_date |-> 0, last_updated |-> 0,
                 story_appearances |-> <<>>,
                 description |-> <<"a", " ", "p", "a", "r", "k">>]]>>

PromptUniverses ==
    {[EmptyGraph EXCEPT !.characters = cs, !.locations = ls] :
        cs \in {<<>>, PromptCharacters}, ls \in {<<>>, PromptLocations}}

\* story["content"]
PromptContents == {<<"A", ".">>, <<"R", "a", "i", "n", " ", "a", "t", " ", "N", "i", "g", "h", "t", ".">>, <<"a", " ", "s", "u", "n", "s", "e", "t", " ", "s", "t", "o", "r", "m">>}

\* Entries of characters_used / locations_used: ids of records, the id of a
\* record that is not in the file, and a name (an entry that is a key)
UsedCharacters == {AmId, ZId, GoneCharId, <<"A", "m">>}
UsedLocations == {ParkId, GoneLocId}

PromptStories ==
    {[id |-> TodayPrefix(STORY, DateOf(0)) \o Fmt(1, SeqWidth),
      title |-> <<"T">>, content |-> content, moral_lesson |-> <<"M">>,
      metadata |-> [generated_date |-> 0, theme |-> "Courage",
                    target_age |-> "6-8", word_count |-> 200,
                    characters_used |-> cs, locations_used |-> ls]] :
        content \in PromptContents,
        cs \in Selections(UsedCharacters, MaxUsed),
        ls \in Selections(UsedLocations, 1)}

\* config['style']; a weight is a number of tenths
StyleConfigs ==
    {[base_style |-> base_style, quality_boost |-> <<"s", "h", "a", "r", "p">>,
      weights |-> [main_prompt |-> main_prompt, style |-> 12, scene |-> 8,
                   quality |-> 11]] :
        base_style \in {<<>>, <<"c", "a", "r", "t", "o", "o", "n">>}, main_prompt \in {10, 15}}

InitPrompt ==
    /\ file = Absent
    /\ universe_data = [a \in Apps |-> EmptyGraph]
    /\ now = 0
    /\ calls = 0
    /\ last = NoCall
    /\ \E g \in PromptUniverses, story \in PromptStories,
          style_config \in StyleConfigs :
            arg = [fn |-> "weighted_prompts", universe_data |-> g,
                   story |-> story, style_config |-> style_config]
    /\ res = NoArg

\* generate_image builds the prompt of the story
Compose ==
    /\ res = NoArg
    /\ res' = [fn |-> "weighted_prompts",
               weighted_prompts |->
                   weighted_prompts(arg.universe_data, arg.story, arg.style_config)]
    /\ UNCHANGED <<file, universe_data, now, calls, last, arg>>

NextPrompt == Compose

SpecPrompt == InitPrompt /\ [][NextPrompt]_vars

----------------------------------------------------------------------------
(* Properties of the prompt *)

\* An entry of characters_used / locations_used resolves when it is a key of
\* the mapping or the id of one of its records
Resolvable(d, entry) ==
    \E k \in 1..Len(d) : d[k].name = entry \/ d[k].data.id = entry

NoneResolvable(d, entries) ==
    \A k \in 1..Len(entries) : ~Resolvable(d, entries[k])

\* C20: for a story with zero resolvable locations, and likewise for one with
\* zero resolvable characters, the prompt is still built: the output is the
\* ordered sequence of the four weighted clauses main, style, scene, quality
\* with the weights of the style configuration, the main clause contains no
\* location part (respectively no character part), and the style and quality
\* clauses are non-empty.
C20_PromptWithoutLocationOrCharacter ==
    LET g == arg.universe_data
        story == arg.story
        no_location == NoneResolvable(g.locations, story.metadata.locations_used)
        no_character == NoneResolvable(g.characters, story.metadata.characters_used)
        wp == res.weighted_prompts
    IN  (res # NoArg /\ (no_location \/ no_character)) =>
            /\ Len(wp) = 4
            /\ wp[1].weight = arg.style_config.weights.main_prompt
            /\ wp[2].weight = arg.style_config.weights.style
            /\ wp[3].weight = arg.style_config.weights.scene
            /\ wp[4].weight = arg.style_config.weights.quality
            /\ StartsWith(wp[1].text, <<"c", "h", "i", "l", "d", "r", "e", "n", "'", "s", " ", "i", "l", "l", "u", "s", "t", "r", "a", "t", "i", "o", "n">>)
            /\ wp[2].text = <<"S", "t", "y", "l", "e", ":", " ">> \o arg.style_config.base_style
            /\ StartsWith(wp[3].text, <<"S", "c", "e", "n", "e", " ", "d", "e", "t", "a", "i", "l", "s", ":", " ">>)
            /\ wp[4].text = <<"Q", "u", "a", "l", "i", "t", "y", ":", " ">> \o arg.style_config.quality_boost
            /\ wp[2].text # <<>> /\ wp[4].text # <<>>
            /\ no_location =>
                  /\ ~Contains(wp[1].text, <<",", " ", "a", "t", " ">>)
                  /\ \A k \in 1..Len(g.locations) :
                        ~Contains(wp[1].text, <<"a", "t", " ">> \o g.locations[k].name)
            /\ no_character =>
                  \/ wp[1].text = <<"c", "h", "i", "l", "d", "r", "e", "n", "'", "s", " ", "i", "l", "l", "u", "s", "t", "r", "a", "t", "i", "o", "n", ",", " ">>
                  \/ \E k \in 1..Len(g.locations) :
                        wp[1].text = <<"c", "h", "i", "l", "d", "r", "e", "n", "'", "s", " ", "i", "l", "l", "u", "s", "t", "r", "a", "t", "i", "o", "n", ",", " ">> \o <<"a", "t", " ">> \o g.locations[k].name

\* C20 witness: the prompt was built for a story that uses a character of the
\* file and a location that is not in the file, which holds other locations;
\* the main clause names the character
C20_Witness ==
    /\ res # NoArg
    /\ arg.universe_data.locations # <<>>
    /\ arg.story.metadata.locations_used # <<>>
    /\ NoneResolvable(arg.universe_data.locations, arg.story.metadata.locations_used)
    /\ ~NoneResolvable(arg.universe_data.characters,
                       arg.story.metadata.characters_used)
    /\ \E k \in 1..Len(arg.universe_data.characters) :
          Contains(res.weighted_prompts[1].text,
                   arg.universe_data.characters[k].name \o <<",", " ">>)

----------------------------------------------------------------------------
(* The feature tags and the scene details on their own *)

MaxPowers == 2      \* entries of a character's powers
MaxWords == 3       \* words of a story's content

\* char['description'] and the entries of char['powers']
FeatureDescriptions ==
    {<<>>, <<"a", " ", "b", "o", "y">>, <<"I", "n", "d", "i", "a", "n", " ", "g", "i", "r", "l">>, <<"B", "r", "o", "w", "n", " ", "s", "k", "i", "n">>, <<"I", "n", "d", "i", "a", "n", ",", " ", "b", "r", "o", "w", "n", " ", "s", "k", "i", "n">>}

FeaturePowers == {<<"c", "a", "n", " ", "f", "l", "y">>, <<"R", "u", "n", "s">>, <<"r", "u", "n">>, <<"f", "l", "y", " ", "a", "n", "d", " ", "r", "u", "n">>}

\* Words of story['content']
SceneWords ==
    {<<"N", "i", "g", "h", "t">>, <<"e", "v", "e", "n", "i", "n", "g">>, <<"S", "u", "n", "s", "e", "t">>, <<"M", "o", "r", "n", "i", "n", "g">>, <<"R", "a", "i", "n">>, <<"S", "t", "o", "r", "m">>, <<"c", "l", "o", "u", "d">>, <<"a", ".">>}

InitClauses ==
    /\ file = Absent
    /\ universe_data = [a \in Apps |-> EmptyGraph]
    /\ now = 0
    /\ calls = 0
    /\ last = NoCall
    /\ \/ \E description \in FeatureDescriptions,
             powers \in Selections(FeaturePowers, MaxPowers) :
               arg = [fn |-> "get_main_character_features",
                      char |-> [name |-> <<"A", "m">>, description |-> description,
                                powers |-> powers]]
       \/ \E words \in Selections(SceneWords, MaxWords) :
               arg = [fn |-> "get_scene_details", words |-> words,
                      story |-> [content |-> Join(words, <<" ">>)]]
    /\ res = NoArg

Features ==
    /\ res = NoArg
    /\ arg.fn = "get_main_character_features"
    /\ res' = [fn |-> "get_main_character_features",
               main_features |-> main_features(arg.char),
               features |-> get_main_character_features(arg.char)]
    /\ UNCHANGED <<file, universe_data, now, calls, last, arg>>

Scene ==
    /\ res = NoArg
    /\ arg.fn = "get_scene_details"
    /\ res' = [fn |-> "get_scene_details",
               scene_details |-> get_scene_details(arg.story)]
    /\ UNCHANGED <<file, universe_data, now, calls, last, arg>>

NextClauses == Features \/ Scene

SpecClauses == InitClauses /\ [][NextClauses]_vars

\* C21: for every primary character record, whatever its description and its
\* list of powers, the subject clause contains at most two derived feature
\* tags.
C21_AtMostTwoFeatureTags ==
    (res # NoArg /\ res.fn = "get_main_character_features")
    => Len(res.main_features) <= 2

\* The words of the content, whatever their letter case
HasWord(words, w) == \E k \in 1..Len(words) : SameIgnoringCase(words[k], w)

\* C30: the scene clause is chosen by fixed-priority first match over the
\* lower-cased content, independently for the two dimensions: time of day is
\* "nighttime" if the content contains "night" or "evening", otherwise
\* "sunset" if it contains "sunset", otherwise "morning" if it contains
\* "morning", otherwise "daytime"; weather is "rainy" if it contains "rain",
\* otherwise "stormy" if it contains "storm", otherwise "cloudy" if it
\* contains "cloud", otherwise "clear sky".
C30_ScenePriority ==
    (res # NoArg /\ res.fn = "get_scene_details") =>
        LET w == arg.words
            time_of_day ==
                IF HasWord(w, <<"n", "i", "g", "h", "t">>) \/ HasWord(w, <<"e", "v", "e", "n", "i", "n", "g">>) THEN <<"n", "i", "g", "h", "t", "t", "i", "m", "e">>
                ELSE IF HasWord(w, <<"s", "u", "n", "s", "e", "t">>) THEN <<"s", "u", "n", "s", "e", "t">>
                ELSE IF HasWord(w, <<"m", "o", "r", "n", "i", "n", "g">>) THEN <<"m", "o", "r", "n", "i", "n", "g">>
                ELSE <<"d", "a", "y", "t", "i", "m", "e">>
            weather ==
                IF HasWord(w, <<"r", "a", "i", "n">>) THEN <<"r", "a", "i", "n", "y">>
                ELSE IF HasWord(w, <<"s", "t", "o", "r", "m">>) THEN <<"s", "t", "o", "r", "m", "y">>
                ELSE IF HasWord(w, <<"c", "l", "o", "u", "d">>) THEN <<"c", "l", "o", "u", "d", "y">>
                ELSE <<"c", "l", "e", "a", "r", " ", "s", "k", "y">>
        IN  res.scene_details
                = time_of_day \o <<",", " ">> \o weather
                      \o <<",", " ", "d", "e", "t", "a", "i", "l", "e", "d", " ", "b", "a", "c", "k", "g", "r", "o", "u", "n", "d">>

\* C30 witness: the content names a sunset before a night, and a storm before
\* rain, in capitals; the scene is that of the night and the rain
C30_Witness ==
    /\ res # NoArg
    /\ res.fn = "get_scene_details"
    /\ \E j, k \in 1..Len(arg.words) :
          j < k /\ arg.words[j] = <<"S", "u", "n", "s", "e", "t">> /\ arg.words[k] = <<"N", "i", "g", "h", "t">>
    /\ Contains(arg.story.content, <<"R", "a", "i", "n">>)
    /\ StartsWith(res.scene_details, <<"n", "i", "g", "h", "t", "t", "i", "m", "e">> \o <<",", " ">> \o <<"r", "a", "i", "n", "y">>)

----------------------------------------------------------------------------
(* Entries of characters_used / locations_used without a record *)

\* C22: an entry of characters_used or locations_used that resolves to no
\* record is never silently dropped: generate_image fails and builds no
\* prompt; and the subject clause of a prompt names no character other than
\* the one the first entry of characters_used resolves to.
C22_UnresolvedIdFails ==
    res # NoArg =>
        LET g == arg.universe_data
            cs == arg.story.metadata.characters_used
            ls == arg.story.metadata.locations_used
            wp == res.weighted_prompts
        IN  /\ \/ \E k \in 1..Len(cs) : ~Resolvable(g.characters, cs[k])
               \/ \E k \in 1..Len(ls) : ~Resolvable(g.locations, ls[k])
               => wp = <<>>
            /\ \A k \in 1..Len(g.characters) :
                  (wp # <<>> /\ StartsWith(wp[1].text, Illustration \o g.characters[k].name \o CommaSpace))
                  => (cs # <<>> /\ Resolve(g.characters, cs[1]) = k)

----------------------------------------------------------------------------
(* The size of the image *)

MaxSize == 6        \* largest size requested or configured
MaxStep == 3        \* largest size_step configured

\* _validate_image_size
validate_image_size(config, size) ==
    IF size < config.model.min_size THEN config.model.min_size
    ELSE IF size > config.model.max_size THEN config.model.max_size
    ELSE LET step == config.model.size_step
         IN  (size \div step) * step

\* config['model'] as get_model_config reads it
ModelConfigs ==
    {[model |-> [default_size |-> d, min_size |-> lo, max_size |-> hi,
                 size_step |-> step]] :
        d \in 1..MaxSize, lo \in 1..MaxSize, hi \in 1..MaxSize,
        step \in 1..MaxStep}

\* image_size of generate_image: None, written <<>>, or <<n>>
ImageSizes == {<<>>} \cup {<<n>> : n \in (0 - 1)..(MaxSize + 1)}

\* image_size or self.default_size
SizeOrDefault(image_size, default_size) ==
    IF image_size = <<>> \/ image_size = <<0>> THEN default_size
    ELSE image_size[1]

InitSize ==
    /\ file = Absent
    /\ universe_data = [a \in Apps |-> EmptyGraph]
    /\ now = 0
    /\ calls = 0
    /\ last = NoCall
    /\ \E config \in ModelConfigs, image_size \in ImageSizes :
          /\ config.model.min_size <= config.model.max_size
          /\ arg = [fn |-> "validate_image_size", config |-> config,
                    image_size |-> image_size]
    /\ res = NoArg

\* size = self._validate_image_size(image_size or self.default_size)
Validate ==
    /\ res = NoArg
    /\ res' = [fn |-> "validate_image_size",
               size |-> validate_image_size(arg.config,
                            SizeOrDefault(arg.image_size,
                                          arg.config.model.default_size))]
    /\ UNCHANGED <<file, universe_data, now, calls, last, arg>>

NextSize == Validate

SpecSize == InitSize /\ [][NextSize]_vars

\* C23: for every requested size and every configuration with
\* min_size <= max_size and size_step >= 1, the size handed to the image
\* generator is the requested size clamped to [min_size, max_size] and then
\* rounded down to a multiple of size_step; in particular it is a multiple of
\* size_step also when the request lies outside [min_size, max_size].
C23_SizeClampedThenRounded ==
    res # NoArg =>
        LET m == arg.config.model
            size == SizeOrDefault(arg.image_size, m.default_size)
            clamped == IF size < m.min_size THEN m.min_size
                       ELSE IF size > m.max_size THEN m.max_size ELSE size
        IN  /\ res.size = (clamped \div m.size_step) * m.size_step
            /\ res.size % m.size_step = 0

----------------------------------------------------------------------------
(* The story composer: the latest image of a story and its document *)

MaxFiles == 2       \* files in the image directory of the story
MaxCtime == 2       \* latest creation time of a file
MaxStamp == 2       \* latest time stamp in the name of an image

None == <<>>

ImagePrefix == <<"s", "t", "o", "r", "y", "_", "i", "m", "a", "g", "e", "_">>
PngExt == <<".", "p", "n", "g">>

\* story_image_{story_id}_{timestamp}.png, the name generate_image saves under
ImageName(story_id, t) ==
    ImagePrefix \o story_id \o <<"_">> \o TodayPrefix(<<>>, DateOf(0))
        \o Fmt(t, 6) \o PngExt

\* glob.glob(os.path.join(story_image_dir, f"story_image_{story_id}*.png")):
\* the files of the listing whose name matches, in the order of the listing
glob(listing, story_id) ==
    LET pattern_head == ImagePrefix \o story_id
    IN  SelectSeq(listing,
            LAMBDA f : /\ Len(f.name) >= Len(pattern_head) + Len(PngExt)
                       /\ StartsWith(f.name, pattern_head)
                       /\ Suffix(f.name, Len(PngExt)) = PngExt)

\* Mutant of Latest: the file with the earliest creation time
Oldest(image_files) ==
    LET k == CHOOSE k \in 1..Len(image_files) :
                 /\ \A j \in 1..Len(image_files) :
                       image_files[j].ctime >= image_files[k].ctime
                 /\ \A j \in 1..(k - 1) :
                       image_files[j].ctime # image_files[k].ctime
    IN  image_files[k].name

\* max(image_files, key=os.path.getctime): the first file of the greatest key
Latest(image_files) ==
    LET k == CHOOSE k \in 1..Len(image_files) :
                 /\ \A j \in 1..Len(image_files) :
                       image_files[j].ctime <= image_files[k].ctime
                 /\ \A j \in 1..(k - 1) :
                       image_files[j].ctime # image_files[k].ctime
    IN  image_files[k].name

\* get_latest_story_image; dir is the directory base_image_path/story_id
get_latest_story_image(dir, story_id) ==
    IF ~dir.exists THEN None
    ELSE LET image_files == glob(dir.listing, story_id)
         IN  IF image_files = <<>> THEN None ELSE Latest(image_files)

\* Mutant of find_story: the first story stands in for a story that is not found
find_story_or_first(stories, story_id) ==
    LET M == {k \in 1..Len(stories) : stories[k].id = story_id}
    IN  IF M = {} THEN 1 ELSE Min(M)

\* find_story: the position of the first story with the id, 0 for None
find_story(stories, story_id) ==
    LET M == {k \in 1..Len(stories) : stories[k].id = story_id}
    IN  IF M = {} THEN 0 ELSE Min(M)

\* story_{story_id}_{timestamp}.pdf
OutputName(story_id, t) ==
    TodayPrefix(<<"s", "t", "o", "r", "y", "_">> \o story_id \o <<"_">>, DateOf(t))
        \o <<"_", "0", "0", "0", "0", "0", "0", ".", "p", "d", "f">>

ComposerStoryIds ==
    {TodayPrefix(STORY, DateOf(0)) \o Fmt(k, SeqWidth) : k \in 1..2}

\* universe_data['stories'] of the file the composer reads
ComposerStories ==
    LET S(k) == [id |-> TodayPrefix(STORY, DateOf(0)) \o Fmt(k, SeqWidth),
                 title |-> <<"T">>, content |-> <<"A", ".">>,
                 moral_lesson |-> <<"M">>]
    IN  {<<>>, <<S(1)>>, <<S(1), S(2)>>}

\* Names of files in the image directory of a story: images of the story,
\* an image of another story, a text file and a picture of another name
FileNames ==
    {ImageName(story_id, t) : story_id \in ComposerStoryIds, t \in 1..MaxStamp}
        \cup {ImagePrefix \o TodayPrefix(STORY, DateOf(0)) \o Fmt(1, SeqWidth) \o <<".", "t", "x", "t">>,
              <<"c", "o", "v", "e", "r", ".", "p", "n", "g">>}

\* The directory base_image_path/story_id: missing, or a listing of files of
\* distinct names in the order the system lists them
ImageDirs ==
    {[exists |-> FALSE, listing |-> <<>>]}
        \cup {[exists |-> TRUE, listing |-> l] :
                l \in {l \in Selections([name : FileNames, ctime : 1..MaxCtime], MaxFiles) :
                          \A a, b \in 1..Len(l) : a # b => l[a].name # l[b].name}}

InitComposer ==
    /\ file = Absent
    /\ universe_data = [a \in Apps |-> EmptyGraph]
    /\ now = 0
    /\ calls = 0
    /\ last = NoCall
    /\ \E story_id \in ComposerStoryIds, stories \in ComposerStories,
          dir \in ImageDirs :
            arg = [fn |-> "composer", story_id |-> story_id,
                   stories |-> stories, dir |-> dir]
    /\ res = NoArg

ComposerUnchanged == UNCHANGED <<file, universe_data, now, calls, last, arg>>

\* A call of get_latest_story_image on its own
GetLatestStoryImage ==
    /\ res = NoArg
    /\ res' = [fn |-> "get_latest_story_image",
               latest_image |-> get_latest_story_image(arg.dir, arg.story_id)]
    /\ ComposerUnchanged

\* create_story_pdf, lines 82-85: the story is looked up
CreateFindStory ==
    /\ res = NoArg
    /\ LET story == find_story(arg.stories, arg.story_id)
       IN  res' = [fn |-> "create_story_pdf",
                   pc |-> IF story = 0 THEN "ValueError" ELSE "image",
                   story |-> story, image_path |-> None, pdfs |-> {}]
    /\ ComposerUnchanged

\* create_story_pdf, lines 87-92: the image is looked up
CreateFindImage ==
    /\ res # NoArg /\ res.fn = "create_story_pdf" /\ res.pc = "image"
    /\ LET image_path == get_latest_story_image(arg.dir, arg.story_id)
       IN  res' = [res EXCEPT !.image_path = image_path,
                              !.pc = IF image_path = None THEN "exit" ELSE "page"]
    /\ ComposerUnchanged

\* create_story_pdf, lines 94-130: the pages are built in memory; opening the
\* image fails or not
CreateAddImage ==
    /\ res # NoArg /\ res.fn = "create_story_pdf" /\ res.pc = "page"
    /\ \E opened \in BOOLEAN :
          res' = [res EXCEPT !.pc = IF opened THEN "output" ELSE "exit"]
    /\ ComposerUnchanged

\* create_story_pdf, lines 151-158: the document is written or the write fails
CreateOutput ==
    /\ res # NoArg /\ res.fn = "create_story_pdf" /\ res.pc = "output"
    /\ \E written \in BOOLEAN :
          res' = IF written
                 THEN [res EXCEPT !.pc = "returned",
                                  !.pdfs = @ \cup {OutputName(arg.story_id, now)}]
                 ELSE [res EXCEPT !.pc = "exit"]
    /\ ComposerUnchanged

NextComposer ==
    \/ GetLatestStoryImage
    \/ CreateFindStory
    \/ CreateFindImage
    \/ CreateAddImage
    \/ CreateOutput

SpecComposer == InitComposer /\ [][NextComposer]_vars

\* The files of the directory that are images of the story, by the names
\* generate_image gives them
Candidates(dir, story_id) ==
    IF ~dir.exists THEN {}
    ELSE {k \in 1..Len(dir.listing) :
             \E t \in 1..MaxStamp : dir.listing[k].name = ImageName(story_id, t)}

\* C24: get_latest_story_image returns None when the candidate set is empty
\* (the directory is missing or holds no matching file), and for a candidate
\* set of pairwise distinct creation times it returns the candidate of the
\* latest creation time.
C24_LatestImage ==
    (res # NoArg /\ res.fn = "get_latest_story_image") =>
        LET l == arg.dir.listing
            cand == Candidates(arg.dir, arg.story_id)
        IN  /\ cand = {} => res.latest_image = None
            /\ (cand # {} /\ \A j, k \in cand : j # k => l[j].ctime # l[k].ctime)
               => \E k \in cand :
                     /\ res.latest_image = l[k].name
                     /\ \A j \in cand : l[j].ctime <= l[k].ctime

\* C24 witness: the directory lists an older image of the story after a newer
\* one, and the newer one is returned
C24_Witness ==
    /\ res # NoArg
    /\ res.fn = "get_latest_story_image"
    /\ Len(arg.dir.listing) = 2
    /\ Candidates(arg.dir, arg.story_id) = {1, 2}
    /\ arg.dir.listing[1].ctime > arg.dir.listing[2].ctime
    /\ res.latest_image = arg.dir.listing[1].name

\* C25: create_story_pdf writes no document when the story id is not found or
\* no image of the story is found: both are checked before any output file is
\* created, and the run halts with a failure (ValueError for the story, exit
\* status 1 for the image).
C25_NoDocumentWithoutStoryOrImage ==
    (res # NoArg /\ res.fn = "create_story_pdf") =>
        LET no_story == \A k \in 1..Len(arg.stories) :
                            arg.stories[k].id # arg.story_id
            no_image == Candidates(arg.dir, arg.story_id) = {}
        IN  /\ (no_story \/ no_image) =>
                  /\ res.pdfs = {}
                  /\ res.pc \in {"ValueError", "image", "exit"}
            /\ no_story => res.pc = "ValueError"
            /\ (~no_story /\ no_image /\ res.pc # "image") => res.pc = "exit"

\* C25 witness: the story is in the file, its directory holds files but no
\* image of the story, and the run has exited without a document
C25_Witness ==
    /\ res # NoArg
    /\ res.fn = "create_story_pdf"
    /\ res.story # 0
    /\ arg.dir.listing # <<>>
    /\ Candidates(arg.dir, arg.story_id) = {}
    /\ res.pc = "exit"
    /\ res.pdfs = {}

----------------------------------------------------------------------------
(* The backing file under a mutating call *)

\* C26: the backing file is replaced atomically on every mutation: after a
\* mutating call the file holds either the document it held before or the
\* complete new document, so that a reader never finds an empty or partial
\* document.
C26_FileReplacedAtomically ==
    [][calls' # calls => (file' = file \/ file'.status = "ok")]_vars

----------------------------------------------------------------------------
(* The width of the sequence field *)

\* C27: every identifier generate_id returns has exactly 5 sequence digits and
\* is not held already: also when 99999 is the largest sequence number held
\* for today, the identifier returned is neither longer than
\* <prefix><YYYYMMDD><5 digits> nor equal to a held identifier.
C27_FiveDigitsNoCollision ==
    res # NoArg =>
        /\ res.ok
        /\ Len(res.id) = Len(arg.prefix) + 8 + SeqWidth
        /\ res.id \notin arg.existing

----------------------------------------------------------------------------
(* The order of the stories *)

\* C28: within one store instance the stories sequence is append-only: across
\* every store call the sequence before the call is a prefix of the sequence
\* after it, so no story is modified or removed, and a story that is added is
\* the last one.
C28_StoriesAppendOnly ==
    [][calls' # calls =>
         \A a \in Apps :
            LET old == universe_data[a].stories
                new == universe_data'[a].stories
            IN  /\ Len(new) \in {Len(old), Len(old) + 1}
                /\ SubSeq(new, 1, Len(old)) = old
      ]_vars

\* C28 witness: a story was saved into a graph that held a story already, and
\* it is the last of the sequence
C28_Witness ==
    /\ last.op = "save_story_to_universe"
    /\ last.kind = "id"
    /\ Len(universe_data["generator"].stories) >= 2
    /\ universe_data["generator"].stories[Len(universe_data["generator"].stories)].id
           = last.id
    /\ universe_data["generator"].stories[1].id # last.id

----------------------------------------------------------------------------
(* The "Story:" label and the body *)

\* A text whose blocks are titles and bare "Story:" labels: it has no narrative
NoNarrative(story) ==
    \A k \in 1..Len(BlocksOf(story)) :
        \/ StartsWith(Strip(BlocksOf(story)[k]), TitleLabel)
        \/ Strip(BlocksOf(story)[k]) = StoryLabel

\* C29: the "Story:" label never counts as narrative: a text made of a title
\* and a "Story:" label with no narrative after it parses to an empty body and
\* is rejected by save_story_to_universe, and no story held in memory or in
\* the file has a content that starts with "Story:".
C29_LabelIsNotNarrative ==
    /\ (res.done /\ NoNarrative(arg.story)) =>
          /\ res.story_text = <<>>
          /\ calls # 0 => (last.op = "save_story_to_universe" /\ last.kind = "false")
    /\ \A g \in Graphs : \A k \in 1..Len(g.stories) :
          ~StartsWith(g.stories[k].content, StoryLabel)

====
